---- MODULE Spec2Model ----
(***************************************************************************)
(* Rate-limited bounded-concurrency dispatch of the BotsDemo load bots.     *)
(*   variant = "thread" : basic_bot/basic_bot.py (ThreadPoolExecutor)       *)
(*   variant = "task"   : browser_impersonator/browser_impersonator_bot.py  *)
(*                        (asyncio tasks gated by a Semaphore)              *)
(*                                                                          *)
(* Time is discrete.  A value read from time.time() is kept as its AGE,     *)
(* the number of ticks elapsed since the instant it denotes (age = current  *)
(* time - value), so that                                                   *)
(*     requests[0] <= now - time_window   is   age(requests[0]) >= window   *)
(*     requests[0] - (now - time_window)  is   window - age(requests[0])    *)
(* when `now` has just been read.  Ages saturate above the window, where    *)
(* the code no longer distinguishes them.                                   *)
(***************************************************************************)
EXTENDS Integers, Sequences, FiniteSets

VARIABLES
    variant,        \* which program runs
    n, c, rate,     \* the command line: -n, -c, -r
    requests,       \* RateLimiter.requests, the deque of recorded timestamps
    mainPc,         \* position of run_basic_bot / main
    i,              \* thread variant: the submit loop's index
    pc,             \* per attempt: the future's / the worker task's position
    now,            \* per attempt: the local `now` of its wait() call
    sleep_left,     \* per attempt: ticks its sleep(sleep_time) has yet to last
    outcome,        \* per attempt: what its work unit did
    elapsed,        \* per attempt: the elapsed time its work unit measured
    results,        \* thread variant: the results list
    times,          \* task variant: the times list
    success_count,  \* task variant: nonlocal success_count
    failure_count,  \* task variant: nonlocal failure_count
    permits,        \* task variant: the semaphore's value
    waiters,        \* task variant: the semaphore's FIFO of blocked tasks
    summary,        \* the summaries logged (at most one)
    error,          \* the exception that left the run, or "none"
    admitted,       \* history: the wait() returns of the last window, oldest first
    started,        \* history: the work-unit starts of the last window, oldest first
    acquireCalls,   \* history: number of wait() calls made
    overlap,        \* history: pairs of tasks suspended inside wait() together
    burst,          \* history: some window has held more than `rate` returns of wait()
    lag,            \* history: an item stayed queued over a tick with a worker free
    arrivals,       \* history: the attempts in the order of their wait() calls
    span            \* history: ticks from the first return of wait() to the last so far

vars == << variant, n, c, rate, requests, mainPc, i, pc, now, sleep_left,
           outcome, elapsed, results, times, success_count, failure_count,
           permits, waiters, summary, error, admitted, started,
           acquireCalls, overlap, burst, lag, arrivals, span >>

-----------------------------------------------------------------------------
(* Bounds of the model *)
MaxN == 3
MaxC == 2
MaxR == 2
TicksPerSecond == 2

(* Program constants *)
time_window == 1
StatusOK == 200

TimeWindow == time_window * TicksPerSecond
AgeCap == TimeWindow + 1

Variants == {"thread", "task"}
NValues == (-1) .. MaxN
CValues == (-1) .. MaxC
RValues == 0 .. MaxR

Attempts == 0 .. (n - 1)

(* The elapsed time measured for attempt k.  Attempts get pairwise distinct  *)
(* durations, so that the statistics tell which attempts entered them.       *)
Duration(k) == k + 1

-----------------------------------------------------------------------------
(* Sequence helpers: min(), max(), sum() of a Python list *)
RECURSIVE SeqSum(_)
SeqSum(s) == IF s = << >> THEN 0 ELSE Head(s) + SeqSum(Tail(s))

RECURSIVE SeqMin(_)
SeqMin(s) == IF Len(s) = 1 THEN Head(s)
             ELSE LET m == SeqMin(Tail(s)) IN IF Head(s) < m THEN Head(s) ELSE m

RECURSIVE SeqMax(_)
SeqMax(s) == IF Len(s) = 1 THEN Head(s)
             ELSE LET m == SeqMax(Tail(s)) IN IF Head(s) > m THEN Head(s) ELSE m

(* The "Timing Stats" block: min, max and avg (kept as sum and count) *)
TimingStats(ts) == << SeqMin(ts), SeqMax(ts), SeqSum(ts), Len(ts) >>

(* `if times:` ... ; << >> stands for "no timing statistics logged" *)
TimingOf(ts) == IF ts # << >> THEN TimingStats(ts) ELSE << >>

-----------------------------------------------------------------------------
(* RateLimiter.wait, the part before the sleep *)

(* A faulty prune: an entry exactly one window old is kept *)
ExpiredStrict(age) == age > TimeWindow

(* requests[0] <= now - self.time_window *)
Expired(age) == age >= TimeWindow

(* while self.requests and Expired(self.requests[0]): self.requests.popleft() *)
RECURSIVE PruneOld(_)
PruneOld(q) == IF q # << >> /\ Expired(Head(q)) THEN PruneOld(Tail(q)) ELSE q

(* len(self.requests) >= self.rate_limit *)
AtRateLimit(q) == Len(q) >= rate

(* sleep_time = self.requests[0] - (now - self.time_window) *)
SleepTime(q) == TimeWindow - Head(q)

(* A faulty limiter: a call that finds the limiter full is rejected *)
WaitBranchRejecting(q) == IF AtRateLimit(q) THEN "raise" ELSE "append"

(* What wait() does after pruning to q: self.requests[0] of an empty deque     *)
(* raises IndexError; a positive sleep_time suspends; otherwise append(now).   *)
WaitBranch(q) ==
    IF AtRateLimit(q) /\ q = << >> THEN "raise"
    ELSE IF AtRateLimit(q) /\ SleepTime(q) > 0 THEN "sleep"
    ELSE "append"

-----------------------------------------------------------------------------
Init ==
    /\ variant \in Variants
    /\ n \in NValues
    /\ c \in CValues
    /\ rate \in RValues
    /\ requests = << >>
    /\ mainPc = "init"
    /\ i = 0
    /\ pc = [k \in Attempts |-> IF variant = "thread" THEN "unsubmitted" ELSE "created"]
    /\ now = [k \in Attempts |-> 0]
    /\ sleep_left = [k \in Attempts |-> 0]
    /\ outcome = [k \in Attempts |-> "pending"]
    /\ elapsed = [k \in Attempts |-> 0]
    /\ results = << >>
    /\ times = << >>
    /\ success_count = 0
    /\ failure_count = 0
    /\ permits = 0
    /\ waiters = << >>
    /\ summary = << >>
    /\ error = "none"
    /\ admitted = << >>
    /\ started = << >>
    /\ acquireCalls = 0
    /\ overlap = {}
    /\ burst = FALSE
    /\ lag = FALSE
    /\ arrivals = << >>
    /\ span = 0

-----------------------------------------------------------------------------
(* Passage of time *)
Older(a) == IF a < AgeCap THEN a + 1 ELSE AgeCap

Asleep(k) == pc[k] = "sleeping" \/ (variant = "thread" /\ mainPc = "sleeping" /\ k = i)

Tick ==
    /\ mainPc \notin {"init", "done", "error"}
    /\ requests' = [x \in DOMAIN requests |-> Older(requests[x])]
    /\ now' = [k \in Attempts |-> IF Asleep(k) THEN Older(now[k]) ELSE now[k]]
    /\ sleep_left' = [k \in Attempts |-> IF sleep_left[k] > 0 THEN sleep_left[k] - 1 ELSE 0]
    /\ UNCHANGED << variant, n, c, rate, mainPc, i, pc, outcome, elapsed, results,
                    times, success_count, failure_count, permits, waiters,
                    summary, error, acquireCalls >>

-----------------------------------------------------------------------------
(* Thread variant: run_basic_bot *)

(* ThreadPoolExecutor(max_workers=c) raises ValueError when c <= 0 *)
BasicStart ==
    /\ variant = "thread" /\ mainPc = "init"
    /\ IF c <= 0
       THEN mainPc' = "error" /\ error' = "ValueError"
       ELSE mainPc' = (IF n > 0 THEN "submit" ELSE "collect") /\ error' = error
    /\ UNCHANGED << variant, n, c, rate, requests, i, pc, now, sleep_left, outcome,
                    elapsed, results, times, success_count, failure_count,
                    permits, waiters, summary, acquireCalls >>

(* A faulty loop: one wait() call is followed by two submits *)
SubmitNextBatch ==
    /\ pc' = [k \in Attempts |-> IF k \in {i, i + 1} THEN "queued" ELSE pc[k]]
    /\ i' = (IF i + 2 < n THEN i + 2 ELSE n)
    /\ mainPc' = IF i + 2 < n THEN "submit" ELSE "collect"

(* wait() has returned for attempt i: executor.submit(...) and the next iteration *)
SubmitNext ==
    /\ pc' = [pc EXCEPT ![i] = "queued"]
    /\ i' = i + 1
    /\ mainPc' = IF i + 1 < n THEN "submit" ELSE "collect"

(* One iteration of the submit loop, up to the sleep inside wait() if there is one *)
BasicSubmit ==
    /\ variant = "thread" /\ mainPc = "submit"
    /\ acquireCalls' = acquireCalls + 1
    /\ LET q == PruneOld(requests) IN
         CASE WaitBranch(q) = "raise" ->
                /\ requests' = q
                /\ mainPc' = "error" /\ error' = "IndexError"
                /\ UNCHANGED << i, pc, now, sleep_left >>
           [] WaitBranch(q) = "sleep" ->
                /\ requests' = q
                /\ now' = [now EXCEPT ![i] = 0]
                /\ sleep_left' = [sleep_left EXCEPT ![i] = SleepTime(q)]
                /\ mainPc' = "sleeping"
                /\ UNCHANGED << i, pc, error >>
           [] WaitBranch(q) = "append" ->
                /\ requests' = Append(q, 0)
                /\ SubmitNext
                /\ UNCHANGED << now, sleep_left, error >>
    /\ UNCHANGED << variant, n, c, rate, outcome, elapsed, results, times,
                    success_count, failure_count, permits, waiters, summary >>

(* time.sleep(sleep_time) is over: self.requests.append(now), then submit *)
BasicWake ==
    /\ variant = "thread" /\ mainPc = "sleeping"
    /\ sleep_left[i] = 0
    /\ requests' = Append(requests, now[i])
    /\ now' = [now EXCEPT ![i] = 0]
    /\ SubmitNext
    /\ UNCHANGED << variant, n, c, rate, sleep_left, outcome, elapsed, results,
                    times, success_count, failure_count, permits, waiters,
                    summary, error, acquireCalls >>

Running == {k \in Attempts : pc[k] = "running"}

(* A faulty pool: one more work item runs than there are workers *)
WorkerFreeOffByOne == Cardinality(Running) <= c

(* A pool of max_workers = c threads: a queued item is taken by a free worker *)
WorkerFree == Cardinality(Running) < c

(* The work queue is FIFO: the oldest queued item is taken first *)
PoolStart(k) ==
    /\ variant = "thread"
    /\ pc[k] = "queued"
    /\ \A j \in Attempts : j < k => pc[j] # "queued"
    /\ WorkerFree
    /\ pc' = [pc EXCEPT ![k] = "running"]
    /\ UNCHANGED << variant, n, c, rate, requests, mainPc, i, now, sleep_left,
                    outcome, elapsed, results, times, success_count,
                    failure_count, permits, waiters, summary, error,
                    acquireCalls >>

(* make_request returns (status_code, elapsed), or session.get raises *)
PoolFinish(k, r) ==
    /\ variant = "thread"
    /\ pc[k] = "running"
    /\ pc' = [pc EXCEPT ![k] = "finished"]
    /\ outcome' = [outcome EXCEPT ![k] = r]
    /\ elapsed' = [elapsed EXCEPT ![k] = IF r = "raised" THEN 0 ELSE Duration(k)]
    /\ UNCHANGED << variant, n, c, rate, requests, mainPc, i, now, sleep_left,
                    results, times, success_count, failure_count, permits,
                    waiters, summary, error, acquireCalls >>

StatusCode(r) == IF r = "ok" THEN StatusOK ELSE 500

(* The tuple the as_completed loop appends for a finished future *)
ResultTuple(k) ==
    IF outcome[k] = "raised" THEN << 0, 0, 0 >>
    ELSE << StatusCode(outcome[k]), elapsed[k] >>

(* A faulty collection: a finished future is collected while the submit loop runs *)
BasicCollectEarly(k) ==
    /\ variant = "thread" /\ mainPc \in {"submit", "sleeping", "collect"}
    /\ pc[k] = "finished"
    /\ pc' = [pc EXCEPT ![k] = "collected"]
    /\ results' = Append(results, ResultTuple(k))
    /\ UNCHANGED << variant, n, c, rate, requests, mainPc, i, now, sleep_left,
                    outcome, elapsed, times, success_count, failure_count,
                    permits, waiters, summary, error, acquireCalls >>

(* for future in as_completed(futures): ... results.append(...) *)
BasicCollect(k) ==
    /\ variant = "thread" /\ mainPc = "collect"
    /\ pc[k] = "finished"
    /\ pc' = [pc EXCEPT ![k] = "collected"]
    /\ results' = Append(results, ResultTuple(k))
    /\ UNCHANGED << variant, n, c, rate, requests, mainPc, i, now, sleep_left,
                    outcome, elapsed, times, success_count, failure_count,
                    permits, waiters, summary, error, acquireCalls >>

(* A faulty filter: every answered request counts as a success, whatever its status *)
IsSuccessAnyStatus(r) == r[1] # 0

IsSuccess(r) == r[1] = StatusOK
IsFailed(r) == r[1] # StatusOK

RECURSIVE ElapsedOf(_)
ElapsedOf(rs) == IF rs = << >> THEN << >> ELSE << Head(rs)[2] >> \o ElapsedOf(Tail(rs))

(* The "Benchmark Summary" of run_basic_bot *)
BasicSummaryOf(rs) ==
    [ total |-> n,
      successCount |-> Len(SelectSeq(rs, IsSuccess)),
      failureCount |-> Len(SelectSeq(rs, IsFailed)),
      timing |-> TimingOf(ElapsedOf(SelectSeq(rs, IsSuccess))) ]

BasicSummary ==
    /\ variant = "thread" /\ mainPc = "collect"
    /\ \A k \in Attempts : pc[k] = "collected"
    /\ summary' = << BasicSummaryOf(results) >>
    /\ mainPc' = "done"
    /\ UNCHANGED << variant, n, c, rate, requests, i, pc, now, sleep_left, outcome,
                    elapsed, results, times, success_count, failure_count,
                    permits, waiters, error, acquireCalls >>

-----------------------------------------------------------------------------
(* Task variant: main, worker, run *)

(* asyncio.Semaphore(concurrency) raises ValueError when concurrency < 0 *)
MainStart ==
    /\ variant = "task" /\ mainPc = "init"
    /\ IF c < 0
       THEN mainPc' = "error" /\ error' = "ValueError" /\ permits' = permits
       ELSE mainPc' = "gather" /\ error' = error /\ permits' = c
    /\ UNCHANGED << variant, n, c, rate, requests, i, pc, now, sleep_left, outcome,
                    elapsed, results, times, success_count, failure_count,
                    waiters, summary, acquireCalls >>

(* A faulty release: the permit is given back twice *)
ReleaseTwice(p) == p + 2

(* A faulty release: the permit is not given back *)
ReleaseNothing(p) == p

(* semaphore.release() on leaving `async with semaphore` *)
Release(p) == p + 1

(* A faulty tail of worker(k): a failed attempt is appended to times but not counted *)
RecordLosingFailure(k, r, p) ==
    /\ pc' = [pc EXCEPT ![k] = "done"]
    /\ outcome' = [outcome EXCEPT ![k] = r]
    /\ elapsed' = [elapsed EXCEPT ![k] = Duration(k)]
    /\ times' = Append(times, Duration(k))
    /\ success_count' = (IF r = "ok" THEN success_count + 1 ELSE success_count)
    /\ failure_count' = failure_count
    /\ permits' = Release(p)

(* The tail of worker(k) once run() has returned (success, error): lines 143-153 *)
Record(k, r, p) ==
    /\ pc' = [pc EXCEPT ![k] = "done"]
    /\ outcome' = [outcome EXCEPT ![k] = r]
    /\ elapsed' = [elapsed EXCEPT ![k] = Duration(k)]
    /\ times' = Append(times, Duration(k))
    /\ IF r = "ok"
       THEN success_count' = success_count + 1 /\ failure_count' = failure_count
       ELSE failure_count' = failure_count + 1 /\ success_count' = success_count
    /\ permits' = Release(p)

(* worker(k) holding a permit (p permits are left): run() up to its first      *)
(* suspension.  An IndexError of wait() is caught by run()'s except clause.    *)
EnterRun(k, p) ==
    /\ acquireCalls' = acquireCalls + 1
    /\ LET q == PruneOld(requests) IN
         CASE WaitBranch(q) = "raise" ->
                /\ requests' = q
                /\ Record(k, "limiter_error", p)
                /\ UNCHANGED << now, sleep_left >>
           [] WaitBranch(q) = "sleep" ->
                /\ requests' = q
                /\ now' = [now EXCEPT ![k] = 0]
                /\ sleep_left' = [sleep_left EXCEPT ![k] = SleepTime(q)]
                /\ pc' = [pc EXCEPT ![k] = "sleeping"]
                /\ permits' = p
                /\ UNCHANGED << outcome, elapsed, times, success_count, failure_count >>
           [] WaitBranch(q) = "append" ->
                /\ requests' = Append(q, 0)
                /\ pc' = [pc EXCEPT ![k] = "working"]
                /\ permits' = p
                /\ UNCHANGED << now, sleep_left, outcome, elapsed, times,
                                success_count, failure_count >>

(* gather() starts the workers in index order, each up to its first suspension *)
FirstSteps == \E k \in Attempts : pc[k] = "created"

WorkerStart(k) ==
    /\ variant = "task" /\ mainPc = "gather"
    /\ pc[k] = "created"
    /\ \A j \in Attempts : j < k => pc[j] # "created"
    /\ IF permits > 0
       THEN EnterRun(k, permits - 1) /\ waiters' = waiters
       ELSE /\ pc' = [pc EXCEPT ![k] = "sem_wait"]
            /\ waiters' = Append(waiters, k)
            /\ UNCHANGED << requests, now, sleep_left, outcome, elapsed, times,
                            success_count, failure_count, permits, acquireCalls >>
    /\ UNCHANGED << variant, n, c, rate, mainPc, i, results, summary, error >>

(* The longest-blocked task is woken by a release and takes the permit *)
SemResume(k) ==
    /\ variant = "task" /\ ~FirstSteps
    /\ pc[k] = "sem_wait"
    /\ waiters # << >> /\ Head(waiters) = k
    /\ permits > 0
    /\ waiters' = Tail(waiters)
    /\ EnterRun(k, permits - 1)
    /\ UNCHANGED << variant, n, c, rate, mainPc, i, results, summary, error >>

(* asyncio.sleep(sleep_time) is over: self.requests.append(now), then the work unit *)
WaitWake(k) ==
    /\ variant = "task" /\ ~FirstSteps
    /\ pc[k] = "sleeping"
    /\ sleep_left[k] = 0
    /\ requests' = Append(requests, now[k])
    /\ now' = [now EXCEPT ![k] = 0]
    /\ pc' = [pc EXCEPT ![k] = "working"]
    /\ UNCHANGED << variant, n, c, rate, mainPc, i, sleep_left, outcome, elapsed,
                    results, times, success_count, failure_count, permits,
                    waiters, summary, error, acquireCalls >>

(* The browser part of run() returns (True, None) or its exception is caught *)
WorkerFinish(k, r) ==
    /\ variant = "task" /\ ~FirstSteps
    /\ pc[k] = "working"
    /\ Record(k, r, permits)
    /\ UNCHANGED << variant, n, c, rate, requests, mainPc, i, now, sleep_left,
                    results, waiters, summary, error, acquireCalls >>

(* The "Results" block of main: counts, success rate, timing *)
MainSummaryOf(ts) ==
    [ total |-> n,
      successCount |-> success_count,
      failureCount |-> failure_count,
      timing |-> TimingOf(ts) ]

(* gather() has returned; success_count/total_requests divides by zero for n = 0 *)
MainSummary ==
    /\ variant = "task" /\ mainPc = "gather"
    /\ \A k \in Attempts : pc[k] = "done"
    /\ IF n = 0
       THEN mainPc' = "error" /\ error' = "ZeroDivisionError" /\ summary' = summary
       ELSE mainPc' = "done" /\ error' = error /\ summary' = << MainSummaryOf(times) >>
    /\ UNCHANGED << variant, n, c, rate, requests, i, pc, now, sleep_left, outcome,
                    elapsed, results, times, success_count, failure_count,
                    permits, waiters, acquireCalls >>

-----------------------------------------------------------------------------
(* The steps of the two programs *)
ThreadStep ==
    \/ BasicStart
    \/ BasicSubmit
    \/ BasicWake
    \/ \E k \in Attempts : PoolStart(k)
    \/ \E k \in Attempts : \E r \in {"ok", "non200", "raised"} : PoolFinish(k, r)
    \/ \E k \in Attempts : BasicCollect(k)
    \/ BasicSummary

TaskStep ==
    \/ MainStart
    \/ \E k \in Attempts : WorkerStart(k)
    \/ \E k \in Attempts : SemResume(k)
    \/ \E k \in Attempts : WaitWake(k)
    \/ \E k \in Attempts : \E r \in {"ok", "raised"} : WorkerFinish(k, r)
    \/ MainSummary

ProgramStep == ThreadStep \/ TaskStep

(* The program alone: the history variables are not maintained *)
Unobserved == UNCHANGED << admitted, started, overlap, burst, lag, arrivals, span >>

Next ==
    \/ Tick /\ Unobserved
    \/ BasicStart /\ Unobserved
    \/ BasicSubmit /\ Unobserved
    \/ BasicWake /\ Unobserved
    \/ \E k \in Attempts : PoolStart(k) /\ Unobserved
    \/ \E k \in Attempts : \E r \in {"ok", "non200", "raised"} : PoolFinish(k, r) /\ Unobserved
    \/ \E k \in Attempts : BasicCollect(k) /\ Unobserved
    \/ BasicSummary /\ Unobserved
    \/ MainStart /\ Unobserved
    \/ \E k \in Attempts : WorkerStart(k) /\ Unobserved
    \/ \E k \in Attempts : SemResume(k) /\ Unobserved
    \/ \E k \in Attempts : WaitWake(k) /\ Unobserved
    \/ \E k \in Attempts : \E r \in {"ok", "raised"} : WorkerFinish(k, r) /\ Unobserved
    \/ MainSummary /\ Unobserved

Spec == Init /\ [][Next]_vars

(* Threads and the event loop keep running, and time keeps passing *)
FairSpec == Spec /\ WF_vars(Tick /\ Unobserved) /\ WF_vars(ProgramStep /\ Unobserved)

-----------------------------------------------------------------------------
(* The program with its history observed: the instants at which wait()      *)
(* returned and at which work units started, kept for one window, and the   *)
(* pairs of tasks that were suspended inside wait() at the same time.       *)

(* wait() has been called for attempt k *)
Entered(k) ==
    IF variant = "thread"
    THEN pc[k] # "unsubmitted"
         \/ (k = i /\ (mainPc = "sleeping" \/ error = "IndexError"))
    ELSE pc[k] \notin {"created", "sem_wait"}

(* wait() has returned for attempt k *)
Admitted(k) ==
    IF variant = "thread" THEN pc[k] # "unsubmitted"
    ELSE pc[k] \in {"working", "done"} /\ outcome[k] # "limiter_error"

(* the work unit of attempt k has begun: make_request / the browser launch *)
Started(k) ==
    IF variant = "thread" THEN pc[k] \in {"running", "finished", "collected"}
    ELSE pc[k] \in {"working", "done"} /\ outcome[k] # "limiter_error"

Event(k) == [id |-> k, age |-> 0]
InWindow(ev) == ev.age + 1 < TimeWindow
OlderLog(log) ==
    LET kept == SelectSeq(log, InWindow)
    IN  [x \in DOMAIN kept |-> [id |-> kept[x].id, age |-> kept[x].age + 1]]

Logged(log, new) == IF new = {} THEN log ELSE Append(log, Event(CHOOSE k \in new : TRUE))

SleepingPairs == {{j, k} : j \in {x \in Attempts : pc[x] = "sleeping"},
                           k \in {x \in Attempts : pc[x] = "sleeping"}}
                 \ {{k} : k \in Attempts}

(* The clock of `span` runs from the first return of wait() until all n calls *)
(* have returned                                                              *)
SpanCap == MaxN * TimeWindow
SpanRuns == (\E k \in Attempts : Admitted(k)) /\ (\E k \in Attempts : ~Admitted(k))

ObserveTick ==
    /\ admitted' = OlderLog(admitted)
    /\ started' = OlderLog(started)
    /\ overlap' = overlap
    /\ burst' = burst
    /\ lag' = (lag \/ (WorkerFree /\ \E k \in Attempts : pc[k] = "queued"))
    /\ arrivals' = arrivals
    /\ span' = (IF SpanRuns /\ span < SpanCap THEN span + 1 ELSE span)

ObserveStep ==
    /\ admitted' = Logged(admitted, {k \in Attempts : Admitted(k)' /\ ~Admitted(k)})
    /\ started' = Logged(started, {k \in Attempts : Started(k)' /\ ~Started(k)})
    /\ overlap' = overlap \cup SleepingPairs'
    /\ burst' = (burst \/ Len(admitted') > rate)
    /\ lag' = lag
    /\ arrivals' = LET new == {k \in Attempts : Entered(k)' /\ ~Entered(k)}
                   IN  IF new = {} THEN arrivals
                       ELSE Append(arrivals, CHOOSE k \in new : TRUE)
    /\ span' = span

NextObserved ==
    \/ Tick /\ ObserveTick
    \/ BasicStart /\ ObserveStep
    \/ BasicSubmit /\ ObserveStep
    \/ BasicWake /\ ObserveStep
    \/ \E k \in Attempts : PoolStart(k) /\ ObserveStep
    \/ \E k \in Attempts : \E r \in {"ok", "non200", "raised"} : PoolFinish(k, r) /\ ObserveStep
    \/ \E k \in Attempts : BasicCollect(k) /\ ObserveStep
    \/ BasicSummary /\ ObserveStep
    \/ MainStart /\ ObserveStep
    \/ \E k \in Attempts : WorkerStart(k) /\ ObserveStep
    \/ \E k \in Attempts : SemResume(k) /\ ObserveStep
    \/ \E k \in Attempts : WaitWake(k) /\ ObserveStep
    \/ \E k \in Attempts : \E r \in {"ok", "raised"} : WorkerFinish(k, r) /\ ObserveStep
    \/ MainSummary /\ ObserveStep

SpecObserved == Init /\ [][NextObserved]_vars

-----------------------------------------------------------------------------
(* Properties *)

Succeeded == {k \in Attempts : outcome[k] = "ok"}
Failed == {k \in Attempts : outcome[k] \notin {"ok", "pending"}}
Ids(log) == {log[x].id : x \in DOMAIN log}

(* C1: thread variant, rate >= 1: every window of one time_window holds at   *)
(* most `rate` returns of wait() (`admitted` holds the returns of the last   *)
(* window, the current instant included).                                    *)
C1_AdmissionsPerWindow ==
    (variant = "thread" /\ rate >= 1) => Len(admitted) <= rate

(* C2: task variant, rate >= 1: two tasks that were suspended inside wait()  *)
(* together are never both admitted into a window that then holds more than  *)
(* `rate` admissions.                                                        *)
C2_AtomicAdmission ==
    (variant = "task" /\ rate >= 1) =>
        \A pair \in overlap : pair \subseteq Ids(admitted) => Len(admitted) <= rate

(* Work units started and not yet finished: make_request running on a pool   *)
(* thread; run() entered (inside `async with semaphore`) and not returned.   *)
InFlight ==
    IF variant = "thread" THEN Running
    ELSE {k \in Attempts : pc[k] \in {"sleeping", "working"}}

(* C3: for c >= 1, at most c work units are started and not yet finished.    *)
C3_InFlightAtMostC == c >= 1 => Cardinality(InFlight) <= c

C3_Witness ==
    /\ c = 2 /\ Cardinality(InFlight) = 2
    /\ \E k \in Attempts : pc[k] \in {"queued", "sem_wait"}

(* C4: thread variant, rate >= 1: every window of one time_window holds at   *)
(* most `rate` starts of work units.  Stated for the runs in which the       *)
(* returns of wait() never exceeded `rate` per window and every queued item  *)
(* was taken by a free worker at once, so that a violation is a burst of     *)
(* units queued behind busy workers, not one of the limiter or of a late     *)
(* worker thread.                                                            *)
C4_StartsPerWindow ==
    (variant = "thread" /\ rate >= 1 /\ ~burst /\ ~lag) => Len(started) <= rate

Recorded == IF variant = "thread" THEN Len(results) ELSE Len(times)
Collected == {k \in Attempts : pc[k] \in {"collected", "done"}}

(* C5: for n, c, rate >= 1 every attempt's outcome is recorded exactly once: *)
(* the records made so far are as many as the attempts that have been        *)
(* recorded, and when the run ends they are n (thread: len(results) = n;     *)
(* task: success_count + failure_count = n and len(times) = n).              *)
C5_EachOutcomeOnce ==
    (n >= 1 /\ c >= 1 /\ rate >= 1) =>
        /\ Recorded = Cardinality(Collected)
        /\ variant = "task" => success_count + failure_count = Len(times)
        /\ mainPc = "done" =>
              /\ Recorded = n
              /\ summary[1].successCount + summary[1].failureCount = n

C5_Witness ==
    /\ mainPc = "done" /\ variant = "task" /\ n = 3 /\ c = 2 /\ rate = 1
    /\ success_count = 2 /\ failure_count = 1

(* C6: for n, c, rate >= 1 no error leaves the run, and when it ends         *)
(* successCount is the number of attempts whose work unit succeeded and      *)
(* failureCount the number of those whose work unit failed.                  *)
C6_FailuresAreCounted ==
    (n >= 1 /\ c >= 1 /\ rate >= 1) =>
        /\ error = "none"
        /\ mainPc = "done" =>
              /\ summary[1].successCount = Cardinality(Succeeded)
              /\ summary[1].failureCount = Cardinality(Failed)
              /\ Cardinality(Succeeded) + Cardinality(Failed) = n

C6_Witness ==
    /\ mainPc = "done" /\ variant = "thread" /\ n = 3
    /\ Succeeded = {}
    /\ \E j, k \in Attempts : outcome[j] = "raised" /\ outcome[k] = "non200"
    /\ summary[1].successCount = 0 /\ summary[1].failureCount = 3

RECURSIVE SetSum(_)
SetSum(S) == IF S = {} THEN 0 ELSE LET x == CHOOSE y \in S : TRUE IN x + SetSum(S \ {x})

(* min, max, sum and count of the elapsed values of the successful attempts *)
ExpectedTiming ==
    LET es == {elapsed[k] : k \in Succeeded} IN
    IF Succeeded = {} THEN << >>
    ELSE << CHOOSE x \in es : \A y \in es : x <= y,
            CHOOSE x \in es : \A y \in es : x >= y,
            SetSum(es), Cardinality(Succeeded) >>

(* C7: for c, rate >= 1 the timing statistics of the summary are those of   *)
(* the elapsed values of the successful attempts, and are absent when no     *)
(* attempt succeeded.                                                        *)
C7_TimingOverSuccesses ==
    (c >= 1 /\ rate >= 1 /\ mainPc = "done") => summary[1].timing = ExpectedTiming

(* C8: a run with n < 0, c < 1 or rate < 1 makes no wait() call, starts no   *)
(* work unit, records no outcome, logs no summary, and ends in an error.     *)
C8_ConfigErrorBeforeDispatch ==
    (n < 0 \/ c < 1 \/ rate < 1) =>
        /\ acquireCalls = 0
        /\ \A k \in Attempts : pc[k] \in {"unsubmitted", "created", "sem_wait"}
        /\ results = << >> /\ times = << >>
        /\ summary = << >>
        /\ mainPc # "done"

AllRecorded ==
    /\ mainPc = "done"
    /\ Len(summary) = 1
    /\ Recorded = n

(* C9: for n, c, rate >= 1, under fair scheduling the run reaches the state  *)
(* where all n outcomes are recorded and the summary is logged.              *)
C9_RunCompletes == (n >= 1 /\ c >= 1 /\ rate >= 1) ~> AllRecorded

C9_Witness ==
    /\ AllRecorded /\ n = 3 /\ c = 1 /\ rate = 1
    /\ Succeeded = {} /\ Cardinality(Failed) = 3

(* C10: a run with n = 0 (c, rate >= 1) makes no wait() call, starts no work *)
(* unit, raises no error, and ends with the summary total = 0,               *)
(* successCount = 0, failureCount = 0, no timing statistics.                 *)
C10_EmptyRun ==
    (n = 0 /\ c >= 1 /\ rate >= 1) =>
        /\ acquireCalls = 0
        /\ error = "none"
        /\ mainPc \in {"done", "error"} =>
              summary = << [total |-> 0, successCount |-> 0, failureCount |-> 0,
                            timing |-> << >>] >>

(* ceil(a / b) for b >= 1 *)
CeilDiv(a, b) == (a + b - 1) \div b

(* C11: for n >= 1 and rate >= 1, once all n wait() calls have returned, the *)
(* last return is at least (ceil(n / rate) - 1) windows after the first.     *)
C11_MinimumDuration ==
    (n >= 1 /\ rate >= 1 /\ \A k \in Attempts : Admitted(k)) =>
        span >= (CeilDiv(n, rate) - 1) * TimeWindow

(* a was appended to the sequence s before b *)
Before(s, a, b) ==
    \E x, y \in DOMAIN s : x < y /\ s[x] = a /\ s[y] = b

(* The step is the return of attempt k's wait() call *)
Returns(k) == Admitted(k)' /\ ~Admitted(k)

(* The step is the end of the sleep inside attempt k's wait() call *)
Wakes(k) == Asleep(k) /\ ~Asleep(k)'

(* C12: task variant, rate >= 1: when a wait() call that had to sleep        *)
(* returns, no call that was made earlier is still suspended in its sleep.   *)
C12_FifoAdmission ==
    [][(variant = "task" /\ rate >= 1) =>
        \A k \in Attempts : (Wakes(k) /\ Returns(k)) =>
            \A j \in Attempts : (pc[j] = "sleeping" /\ j # k) =>
                ~Before(arrivals, j, k)]_vars

(* C13: for n >= 0 and c, rate >= 1: the wait() calls made so far are as     *)
(* many as the attempts that have reached the limiter, a started work unit   *)
(* is one whose own wait() call has returned, the step that starts a work    *)
(* unit is or follows the return of its wait() call (with its timestamp      *)
(* appended), and when the run ends n wait() calls have been made.           *)
C13_OneAcquirePerUnit ==
    /\ [](( n >= 0 /\ c >= 1 /\ rate >= 1) =>
            /\ acquireCalls = Cardinality({k \in Attempts : Entered(k)})
            /\ \A k \in Attempts : Started(k) => (Entered(k) /\ Admitted(k))
            /\ mainPc \in {"done", "error"} => acquireCalls = n)
    /\ [][(n >= 0 /\ c >= 1 /\ rate >= 1) =>
            \A k \in Attempts : (Started(k)' /\ ~Started(k)) =>
                \/ Admitted(k) /\ UNCHANGED << requests, acquireCalls >>
                \/ Returns(k) /\ acquireCalls' <= acquireCalls + 1
                     /\ \E a \in 0 .. AgeCap :
                           requests' \in {Append(requests, a),
                                          Append(PruneOld(requests), a)}]_vars

C13_Witness ==
    /\ mainPc = "done" /\ n = 3 /\ c = 2 /\ rate = 1 /\ acquireCalls = 3
    /\ \A k \in Attempts : Started(k)

(* C14: when a wait() call has slept, the timestamp it appends is the        *)
(* instant at which it woke (age 0 at the moment of the append).             *)
C14_AppendsWakeInstant ==
    [][\A k \in Attempts : Wakes(k) => requests' = Append(requests, 0)]_vars

(* Timestamps held in the deque that lie in the closed window [now - W, now] *)
InClosedWindow(q) == {x \in DOMAIN q : q[x] <= TimeWindow}

(* C15: for rate >= 1, in the state in which a wait() call has just          *)
(* returned, at most `rate` of the timestamps held in the deque lie in the   *)
(* closed interval [now - time_window, now].                                 *)
C15_WindowCountAfterReturn ==
    [][rate >= 1 =>
        \A k \in Attempts : Returns(k) =>
            Cardinality(InClosedWindow(requests')) <= rate]_vars

(* C16: the deque is ordered oldest first: no entry is older than the entry  *)
(* before it.                                                                *)
C16_OldestFirst ==
    \A x \in 1 .. (Len(requests) - 1) : requests[x] >= requests[x + 1]

(* C17: for rate >= 1 a wait() call has no error outcome, a suspended call   *)
(* sleeps for a positive time of at most one window, and the step that ends  *)
(* its sleep appends exactly one timestamp and returns (no second sleep);    *)
(* a call that does not suspend appends exactly one timestamp to the pruned  *)
(* deque and returns.                                                        *)
C17_NeverRejects ==
    /\ [](rate >= 1 =>
            /\ error # "IndexError"
            /\ \A k \in Attempts : outcome[k] # "limiter_error"
            /\ \A k \in Attempts : sleep_left[k] <= TimeWindow)
    /\ [][rate >= 1 =>
            /\ \A k \in Attempts :
                 Wakes(k) => /\ Returns(k)
                             /\ Len(requests') = Len(requests) + 1
            /\ \A k \in Attempts :
                 (Entered(k)' /\ ~Entered(k)) =>
                    \/ Asleep(k)' /\ sleep_left'[k] > 0
                         /\ requests' = PruneOld(requests)
                    \/ Returns(k)
                         /\ requests' = Append(PruneOld(requests), 0)]_vars

C17_Witness ==
    /\ variant = "thread" /\ rate = 1 /\ n = 3
    /\ mainPc = "submit" /\ i = 2 /\ acquireCalls = 2
    /\ Len(requests) = 2

(* C18: thread variant: at most one wait() call is in progress, the steps of *)
(* the pool's worker threads leave the deque and the results list unchanged, *)
(* the deque and the results list change only in steps of the submitting     *)
(* thread, and no outcome is collected before all n attempts have been       *)
(* admitted and submitted.                                                   *)
C18_SingleSubmitter ==
    /\ [](variant = "thread" =>
            /\ Cardinality({k \in Attempts : Asleep(k)}) <= 1
            /\ (results # << >> \/ \E k \in Attempts : pc[k] = "collected") =>
                  /\ i = n
                  /\ \A k \in Attempts : Admitted(k) /\ pc[k] # "unsubmitted")
    /\ [][variant = "thread" =>
            /\ (\E k \in Attempts : pc'[k] # pc[k] /\ pc'[k] \in {"running", "finished"})
                  => UNCHANGED << requests, results >>
            /\ results' # results => (mainPc = "collect" /\ mainPc' = "collect")
            /\ (Len(requests') > Len(requests)) =>
                  (mainPc \in {"submit", "sleeping"} /\ i' = i + 1)]_vars

C18_Witness ==
    /\ variant = "thread" /\ n = 3 /\ c = 2
    /\ mainPc = "sleeping" /\ i = 2
    /\ pc[0] = "finished" /\ pc[1] = "running"
    /\ results = << >>

(* Tasks inside `async with semaphore` *)
Holding == {k \in Attempts : pc[k] \in {"sleeping", "working"}}

(* C19: task variant, c >= 0, once the semaphore exists: permits held plus   *)
(* permits free are c, a task inside wait() or the work unit holds a permit, *)
(* at most c tasks are there together, and after the run all c are free.     *)
C19_PermitsConserved ==
    (variant = "task" /\ c >= 0 /\ mainPc # "init") =>
        /\ permits >= 0
        /\ permits + Cardinality(Holding) = c
        /\ \A k \in Attempts : (Entered(k) /\ pc[k] # "done") => k \in Holding
        /\ Cardinality(Holding) <= c
        /\ mainPc \in {"done", "error"} => permits = c

C19_Witness ==
    /\ variant = "task" /\ mainPc = "done" /\ n = 3 /\ c = 2
    /\ Succeeded # {} /\ Failed # {}
    /\ permits = 2

(* C20: thread variant, rate >= 1: the deque never holds more than rate + 1  *)
(* timestamps.                                                               *)
C20_DequeBounded ==
    (variant = "thread" /\ rate >= 1) => Len(requests) <= rate + 1

C20_Witness ==
    /\ variant = "thread" /\ rate = 2 /\ n = 3
    /\ Len(requests) = 3

====
